---- MODULE Spec2Model ----
(***************************************************************************)
(* Model of src/main.py: the phone-intelligence pipeline (main,            *)
(* enrich_phone, format_output) and its pure helpers                       *)
(* (get_area_code_info, calculate_confidence_score, assess_number_risk).   *)
(*                                                                         *)
(* Python values are represented as follows.                               *)
(*   str    a sequence of one-character strings                            *)
(*   None   the one-element sequence <<"None">> (no str is equal to it,    *)
(*          because its element is not a single character)                 *)
(*   int    for national numbers, which exceed 32 bits: a pair            *)
(*          [hi, lo] standing for hi * 100000 + lo with lo < 100000        *)
(*   dict   a function from key names to values; len is the size of its    *)
(*          domain                                                         *)
(***************************************************************************)
EXTENDS Integers, Sequences, FiniteSets, TLC

VARIABLES pc, phone_number, parse_calls, pn, result, exc, stdout, stderr,
          exit_code, call, ret

vars == <<pc, phone_number, parse_calls, pn, result, exc, stdout, stderr,
          exit_code, call, ret>>

\* ---------------------------------------------------------------- bounds
MaxNationalLen == 11
MaxInputLen == 3
MaxTz == 2

\* ------------------------------------------------------- Python values
None == <<"None">>

\* truth value of a str-or-None operand of `if x:` / `not x`
Truthy(x) == x # None /\ x # <<>>

DigitChar(d) == <<"0", "1", "2", "3", "4", "5", "6", "7", "8", "9">>[d + 1]

RECURSIVE Dec(_)
\* decimal digits of a non-negative machine integer, no leading zeros
Dec(k) == IF k < 10 THEN <<DigitChar(k)>>
          ELSE Dec(k \div 10) \o <<DigitChar(k % 10)>>

RECURSIVE ZeroPad(_, _)
ZeroPad(s, w) == IF Len(s) >= w THEN s ELSE ZeroPad(<<"0">> \o s, w)

\* str(n) for a national number n = [hi, lo]
Str(n) == IF n.hi = 0 THEN Dec(n.lo) ELSE Dec(n.hi) \o ZeroPad(Dec(n.lo), 5)

RECURSIVE IntOfDigits(_, _)
\* the integer the library stores for a national significant number given
\* as a list of digits: leading zeros do not survive the conversion
IntOfDigits(ds, acc) ==
    IF ds = <<>> THEN acc
    ELSE LET t == acc.lo * 10 + Head(ds)
         IN  IntOfDigits(Tail(ds),
                         [hi |-> acc.hi * 10 + t \div 100000, lo |-> t % 100000])

\* Python slice s[a:b] (0-based, half-open, clipped to the string)
Slice(s, a, b) ==
    LET hiB == IF b > Len(s) THEN Len(s) ELSE b
    IN  IF a >= hiB THEN <<>> ELSE SubSeq(s, a + 1, hiB)

\* ------------------------------------------------- get_area_code_info
get_area_code_info_short_exchange(phone_number_) ==
    LET national_str == Str(phone_number_.national_number)
        nanp == phone_number_.country_code = 1 /\ Len(national_str) = 10
    IN  [area_code |-> IF Len(national_str) >= 3
                       THEN Slice(national_str, 0, 3) ELSE None,
         exchange_code |-> IF nanp \/ Len(national_str) >= 6
                           THEN Slice(national_str, 3, 5) ELSE None,
         subscriber_number |-> IF nanp \/ Len(national_str) >= 6
                               THEN Slice(national_str, 6, Len(national_str))
                               ELSE None,
         is_nanp_format |-> nanp]

get_area_code_info(phone_number_) ==
    LET national_str == Str(phone_number_.national_number)
        nanp == phone_number_.country_code = 1 /\ Len(national_str) = 10
    IN  IF nanp
        THEN [area_code |-> Slice(national_str, 0, 3),
              exchange_code |-> Slice(national_str, 3, 6),
              subscriber_number |-> Slice(national_str, 6, Len(national_str)),
              is_nanp_format |-> nanp]
        ELSE IF Len(national_str) >= 3
        THEN [area_code |-> IF Len(national_str) >= 3
                            THEN Slice(national_str, 0, 3) ELSE None,
              exchange_code |-> IF Len(national_str) >= 6
                                THEN Slice(national_str, 3, 6) ELSE None,
              subscriber_number |-> IF Len(national_str) >= 6
                                    THEN Slice(national_str, 6, Len(national_str))
                                    ELSE None,
              is_nanp_format |-> nanp]
        ELSE [area_code |-> None, exchange_code |-> None,
              subscriber_number |-> None, is_nanp_format |-> nanp]

\* ----------------------------------------- calculate_confidence_score
Min(a, b) == IF a < b THEN a ELSE b

calculate_confidence_score_city_penalty(validation, geographic, service_info) ==
    LET s1 == IF validation["is_valid_number"] THEN 30 ELSE 0
        s2 == s1 + (IF Truthy(geographic["primary_location"]) THEN 25 ELSE 0)
        s3 == s2 + (IF Truthy(service_info["carrier_name"]) THEN 20 ELSE 0)
        s4 == s3 + (IF Truthy(geographic["area_code"]) THEN 15 ELSE 0)
        s5 == s4 - (IF Truthy(geographic["city"]) THEN 10 ELSE 0)
    IN  Min(s5, 100)

calculate_confidence_score_carrier_25(validation, geographic, service_info) ==
    LET s1 == IF validation["is_valid_number"] THEN 30 ELSE 0
        s2 == s1 + (IF Truthy(geographic["primary_location"]) THEN 25 ELSE 0)
        s3 == s2 + (IF Truthy(service_info["carrier_name"]) THEN 25 ELSE 0)
        s4 == s3 + (IF Truthy(geographic["area_code"]) THEN 15 ELSE 0)
        s5 == s4 + (IF Truthy(geographic["city"]) THEN 10 ELSE 0)
    IN  Min(s5, 100)

calculate_confidence_score(validation, geographic, service_info) ==
    LET s1 == IF validation["is_valid_number"] THEN 30 ELSE 0
        s2 == s1 + (IF Truthy(geographic["primary_location"]) THEN 25 ELSE 0)
        s3 == s2 + (IF Truthy(service_info["carrier_name"]) THEN 20 ELSE 0)
        s4 == s3 + (IF Truthy(geographic["area_code"]) THEN 15 ELSE 0)
        s5 == s4 + (IF Truthy(geographic["city"]) THEN 10 ELSE 0)
    IN  Min(s5, 100)

\* ------------------------------------------------- assess_number_risk
PhoneNumberType ==
    {"FIXED_LINE", "MOBILE", "FIXED_LINE_OR_MOBILE", "TOLL_FREE",
     "PREMIUM_RATE", "SHARED_COST", "VOIP", "PERSONAL_NUMBER", "PAGER",
     "UAN", "VOICEMAIL", "UNKNOWN"}

assess_number_risk_safe_ignores_validation(num_type, geographic, validation) ==
    LET f1 == IF ~validation["is_valid_number"]
              THEN <<"Invalid number format">> ELSE <<>>
        l1 == IF ~validation["is_valid_number"] THEN "HIGH" ELSE "LOW"
        f2 == IF num_type = "PREMIUM_RATE"
              THEN Append(f1, "Premium rate number - charges may apply") ELSE f1
        l2 == IF num_type = "PREMIUM_RATE" THEN "MEDIUM" ELSE l1
        f3 == IF num_type = "VOIP"
              THEN Append(f2, "VoIP number - location may not be accurate") ELSE f2
        l3 == IF num_type = "VOIP" /\ l2 = "LOW" THEN "MEDIUM" ELSE l2
        f4 == IF ~Truthy(geographic["primary_location"])
              THEN Append(f3, "Location information unavailable") ELSE f3
    IN  [risk_level |-> l3,
         risk_factors |-> f4,
         is_safe_to_call |-> l3 \in {"LOW", "MEDIUM"}]

assess_number_risk_voip_ignored(num_type, geographic, validation) ==
    LET f1 == IF ~validation["is_valid_number"]
              THEN <<"Invalid number format">> ELSE <<>>
        l1 == IF ~validation["is_valid_number"] THEN "HIGH" ELSE "LOW"
        f2 == IF num_type = "PREMIUM_RATE"
              THEN Append(f1, "Premium rate number - charges may apply") ELSE f1
        l2 == IF num_type = "PREMIUM_RATE" THEN "MEDIUM" ELSE l1
        f3 == IF num_type = "VOIP"
              THEN Append(f2, "VoIP number - location may not be accurate") ELSE f2
        f4 == IF ~Truthy(geographic["primary_location"])
              THEN Append(f3, "Location information unavailable") ELSE f3
    IN  [risk_level |-> l2,
         risk_factors |-> f4,
         is_safe_to_call |-> l2 \in {"LOW", "MEDIUM"} /\ validation["is_valid_number"]]

assess_number_risk_premium_high(num_type, geographic, validation) ==
    LET f1 == IF ~validation["is_valid_number"]
              THEN <<"Invalid number format">> ELSE <<>>
        l1 == IF ~validation["is_valid_number"] THEN "HIGH" ELSE "LOW"
        f2 == IF num_type = "PREMIUM_RATE"
              THEN Append(f1, "Premium rate number - charges may apply") ELSE f1
        l2 == IF num_type = "PREMIUM_RATE" THEN "HIGH" ELSE l1
        f3 == IF num_type = "VOIP"
              THEN Append(f2, "VoIP number - location may not be accurate") ELSE f2
        l3 == IF num_type = "VOIP" /\ l2 = "LOW" THEN "MEDIUM" ELSE l2
        f4 == IF ~Truthy(geographic["primary_location"])
              THEN Append(f3, "Location information unavailable") ELSE f3
    IN  [risk_level |-> l3,
         risk_factors |-> f4,
         is_safe_to_call |-> l3 \in {"LOW", "MEDIUM"} /\ validation["is_valid_number"]]

assess_number_risk(num_type, geographic, validation) ==
    LET f1 == IF ~validation["is_valid_number"]
              THEN <<"Invalid number format">> ELSE <<>>
        l1 == IF ~validation["is_valid_number"] THEN "HIGH" ELSE "LOW"
        f2 == IF num_type = "PREMIUM_RATE"
              THEN Append(f1, "Premium rate number - charges may apply") ELSE f1
        l2 == IF num_type = "PREMIUM_RATE" THEN "MEDIUM" ELSE l1
        f3 == IF num_type = "VOIP"
              THEN Append(f2, "VoIP number - location may not be accurate") ELSE f2
        l3 == IF num_type = "VOIP" /\ l2 = "LOW" THEN "MEDIUM" ELSE l2
        f4 == IF ~Truthy(geographic["primary_location"])
              THEN Append(f3, "Location information unavailable") ELSE f3
    IN  [risk_level |-> l3,
         risk_factors |-> f4,
         is_safe_to_call |-> l3 \in {"LOW", "MEDIUM"} /\ validation["is_valid_number"]]

\* ------------------------------------------------------------------------
\* Direct calls of the three pure functions, on inputs drawn from bounded
\* sets (specification SpecUnit).
\* ------------------------------------------------------------------------
CountryCodes == {1, 44}
Seeds == {0, 2, 7}

\* a national significant number of len digits as the parser reads it; seed 7
\* starts with a zero, seed 2 has a zero in sixth place
NsnDigits(len, seed) == [i \in 1..len |-> (seed + 3 * i) % 10]

NationalNumbers ==
    {IntOfDigits(NsnDigits(len, seed), [hi |-> 0, lo |-> 0]) :
        len \in 1..MaxNationalLen, seed \in Seeds}

ParsedNumbers == [country_code : CountryCodes, national_number : NationalNumbers]

LocationStrings == {<<>>, <<"S">>, <<"S", ",", " ", "C">>, <<" ", ",", "C">>}
CarrierStrings == {<<>>, <<"T">>}
OptLocation == {None} \cup LocationStrings
OptCarrier == {None} \cup CarrierStrings
OptAreaCode == {None, <<"4", "1", "5">>}
OptCity == {None, <<>>, <<"S">>}

AreaCodeCalls == [fn : {"get_area_code_info"}, phone_number : ParsedNumbers]

ConfidenceCalls ==
    [fn : {"calculate_confidence_score"},
     validation : [is_valid_number : BOOLEAN],
     geographic : [primary_location : OptLocation, area_code : OptAreaCode,
                   city : OptCity],
     service_info : [carrier_name : OptCarrier]]

RiskCalls ==
    [fn : {"assess_number_risk"},
     num_type : PhoneNumberType,
     geographic : [primary_location : OptLocation],
     validation : [is_valid_number : BOOLEAN]]

Idle ==
    /\ phone_number = None
    /\ parse_calls = <<>>
    /\ pn = None
    /\ result = None
    /\ exc = <<>>
    /\ stdout = <<>>
    /\ stderr = <<>>
    /\ exit_code = <<>>

InitUnit ==
    /\ Idle
    /\ pc = "call"
    /\ call \in AreaCodeCalls \cup ConfidenceCalls \cup RiskCalls
    /\ ret = None

UnchangedPipeline ==
    UNCHANGED <<phone_number, parse_calls, pn, result, exc, stdout, stderr,
                exit_code>>

CallAreaCode ==
    /\ pc = "call"
    /\ call.fn = "get_area_code_info"
    /\ ret' = get_area_code_info(call.phone_number)
    /\ pc' = "returned"
    /\ UNCHANGED call
    /\ UnchangedPipeline

CallConfidenceScore ==
    /\ pc = "call"
    /\ call.fn = "calculate_confidence_score"
    /\ ret' = calculate_confidence_score(call.validation, call.geographic,
                                         call.service_info)
    /\ pc' = "returned"
    /\ UNCHANGED call
    /\ UnchangedPipeline

CallAssessRisk ==
    /\ pc = "call"
    /\ call.fn = "assess_number_risk"
    /\ ret' = assess_number_risk(call.num_type, call.geographic, call.validation)
    /\ pc' = "returned"
    /\ UNCHANGED call
    /\ UnchangedPipeline

NextUnit == CallAreaCode \/ CallConfidenceScore \/ CallAssessRisk

SpecUnit == InitUnit /\ [][NextUnit]_vars

Returned(fn) == pc = "returned" /\ call.fn = fn

\* C1: once the invalid-number rule has set the level to HIGH no later rule
\* lowers it: every call with is_valid_number = false returns HIGH, whatever
\* the number type and the primary location.
C1_InvalidReturnsHigh ==
    (Returned("assess_number_risk") /\ ~call.validation.is_valid_number)
        => ret.risk_level = "HIGH"

\* C2: is_safe_to_call equals (risk_level is LOW or MEDIUM) and
\* is_valid_number, and so is false whenever is_valid_number is false.
C2_SafeToCall ==
    Returned("assess_number_risk") =>
        /\ ret.is_safe_to_call =
              (ret.risk_level \in {"LOW", "MEDIUM"} /\ call.validation.is_valid_number)
        /\ (~call.validation.is_valid_number => ~ret.is_safe_to_call)

C2_Witness ==
    /\ Returned("assess_number_risk")
    /\ ~call.validation.is_valid_number
    /\ call.num_type = "PREMIUM_RATE"
    /\ ret.risk_level = "MEDIUM"
    /\ ~ret.is_safe_to_call

\* C3: a valid VoIP or premium-rate number is never rated LOW; it is rated
\* MEDIUM, whatever the primary location.
C3_VoipPremiumMedium ==
    (/\ Returned("assess_number_risk")
     /\ call.validation.is_valid_number
     /\ call.num_type \in {"VOIP", "PREMIUM_RATE"})
        => ret.risk_level = "MEDIUM"

C3_Witness ==
    /\ Returned("assess_number_risk")
    /\ call.validation.is_valid_number
    /\ call.num_type = "VOIP"
    /\ ~Truthy(call.geographic.primary_location)
    /\ ret.risk_level = "MEDIUM"

Weight(present, w) == IF present THEN w ELSE 0

Signals(c) ==
    [valid |-> c.validation.is_valid_number,
     location |-> Truthy(c.geographic.primary_location),
     carrier |-> Truthy(c.service_info.carrier_name),
     area_code |-> Truthy(c.geographic.area_code),
     city |-> Truthy(c.geographic.city)]

WeightedSum(sg) ==
    Weight(sg.valid, 30) + Weight(sg.location, 25) + Weight(sg.carrier, 20)
        + Weight(sg.area_code, 15) + Weight(sg.city, 10)

\* C4: the confidence score is min(100, 30*valid + 25*location + 20*carrier
\* + 15*area code + 10*city), an integer in 0..100, for every combination of
\* the five signals.
C4_ScoreFormula ==
    Returned("calculate_confidence_score") =>
        /\ ret \in 0..100
        /\ ret = Min(100, WeightedSum(Signals(call)))

C4_Witness ==
    /\ Returned("calculate_confidence_score")
    /\ Signals(call) = [valid |-> TRUE, location |-> TRUE, carrier |-> TRUE,
                        area_code |-> FALSE, city |-> TRUE]
    /\ ret = 85

AtMost(a, b) ==
    /\ a.valid => b.valid
    /\ a.location => b.location
    /\ a.carrier => b.carrier
    /\ a.area_code => b.area_code
    /\ a.city => b.city

\* C5: the score is monotonic in the signals: no call whose signals are a
\* subset of those of the call just made scores higher than it, and no call
\* whose signals are a superset scores lower.
C5_Monotonic ==
    Returned("calculate_confidence_score") =>
        \A c \in ConfidenceCalls :
            LET sc == calculate_confidence_score(c.validation, c.geographic,
                                                 c.service_info)
            IN  /\ AtMost(Signals(c), Signals(call)) => sc <= ret
                /\ AtMost(Signals(call), Signals(c)) => ret <= sc

C5_Witness ==
    /\ Returned("calculate_confidence_score")
    /\ Signals(call) = [valid |-> TRUE, location |-> FALSE, carrier |-> TRUE,
                        area_code |-> FALSE, city |-> FALSE]
    /\ ret = 50
    /\ \E c \in ConfidenceCalls :
          /\ AtMost(Signals(call), Signals(c))
          /\ Signals(c) # Signals(call)
          /\ calculate_confidence_score(c.validation, c.geographic,
                                        c.service_info) > ret

\* C6: for country calling code 1 and a national number of exactly 10
\* digits, the area code, exchange and subscriber number have 3, 3 and 4
\* digits, concatenate to the national number's digit string, and
\* is_nanp_format is true.
C6_NanpSplit ==
    (/\ Returned("get_area_code_info")
     /\ call.phone_number.country_code = 1
     /\ Len(Str(call.phone_number.national_number)) = 10)
        => /\ ret.area_code # None /\ Len(ret.area_code) = 3
           /\ ret.exchange_code # None /\ Len(ret.exchange_code) = 3
           /\ ret.subscriber_number # None /\ Len(ret.subscriber_number) = 4
           /\ ret.area_code \o ret.exchange_code \o ret.subscriber_number
                 = Str(call.phone_number.national_number)
           /\ ret.is_nanp_format

C6_Witness ==
    /\ Returned("get_area_code_info")
    /\ call.phone_number.country_code = 1
    /\ Str(call.phone_number.national_number)
          = <<"5", "8", "1", "4", "7", "0", "3", "6", "9", "2">>
    /\ ret.exchange_code = <<"4", "7", "0">>
    /\ ret.is_nanp_format

\* ------------------------------------------------------------------------
\* enrich_phone: the report
\* ------------------------------------------------------------------------

\* a value produced by the phone-number library, pycountry, pytz or the clock
\* that no rule of this program inspects
Ext == <<"ext">>

\* dict.update(other) and d[k] = v
Update(d, other) ==
    [k \in DOMAIN d \cup DOMAIN other |-> IF k \in DOMAIN other THEN other[k] ELSE d[k]]

SetItem(d, k, v) == [x \in DOMAIN d \cup {k} |-> IF x = k THEN v ELSE d[x]]

PyLen(d) == Cardinality(DOMAIN d)

IsDigitOrPlus(c) ==
    c \in {"0", "1", "2", "3", "4", "5", "6", "7", "8", "9", "+"}

RECURSIVE Cleaned(_)
\* re.sub(r'[^0-9+]', '', number_str)
Cleaned(s) ==
    IF s = <<>> THEN <<>>
    ELSE IF IsDigitOrPlus(Head(s)) THEN <<Head(s)>> \o Cleaned(Tail(s))
    ELSE Cleaned(Tail(s))

RECURSIVE LStrip(_)
LStrip(s) == IF s # <<>> /\ Head(s) = " " THEN LStrip(Tail(s)) ELSE s

RECURSIVE RStrip(_)
RStrip(s) ==
    IF s # <<>> /\ s[Len(s)] = " " THEN RStrip(SubSeq(s, 1, Len(s) - 1)) ELSE s

StripNothing(s) == s

\* str.strip()
Strip(s) == RStrip(LStrip(s))

RECURSIVE SplitComma(_, _)
\* s.split(","), cur being the part read so far
SplitComma(s, cur) ==
    IF s = <<>> THEN <<cur>>
    ELSE IF Head(s) = "," THEN <<cur>> \o SplitComma(Tail(s), <<>>)
    ELSE SplitComma(Tail(s), Append(cur, Head(s)))

HasComma(s) == \E i \in 1..Len(s) : s[i] = ","

get_enhanced_location_data(region_desc) ==
    LET location_parts == IF Truthy(region_desc) THEN SplitComma(region_desc, <<>>)
                          ELSE <<>>
    IN  [primary_location |-> region_desc,
         location_spanish |-> Ext,
         location_french |-> Ext,
         city |-> IF location_parts # <<>> THEN Strip(location_parts[1]) ELSE None,
         state_province |-> IF Len(location_parts) > 1
                            THEN Strip(location_parts[2]) ELSE None,
         location_confidence |->
             IF Truthy(region_desc) /\ HasComma(region_desc) THEN "high"
             ELSE IF Truthy(region_desc) THEN "medium" ELSE "low"]

TzList(n) == [i \in 1..n |-> i]

get_timezone_details(tz_list) ==
    LET timezone_data ==
            [all_timezones |-> tz_list,
             timezone_count |-> Len(tz_list),
             primary_timezone |-> IF tz_list # <<>> THEN tz_list[1] ELSE None,
             spans_multiple_timezones |-> Len(tz_list) > 1]
        local == [local_time |-> Ext, local_time_12h |-> Ext, local_date |-> Ext,
                  utc_offset_hours |-> Ext, utc_offset_string |-> Ext,
                  is_dst |-> Ext, timezone_name |-> Ext,
                  timezone_abbreviation |-> Ext]
        with_local == IF tz_list # <<>> THEN Update(timezone_data, local)
                      ELSE timezone_data
    IN  IF Len(tz_list) > 1
        THEN SetItem(with_local, "all_timezone_details",
                     [i \in 1..Len(tz_list) |-> tz_list[i]])
        ELSE with_local

ExampleTypeNames == <<"mobile", "fixed_line", "toll_free", "premium_rate">>

ExampleNumberKey(type_name) ==
    CASE type_name = "mobile" -> "example_mobile_number"
      [] type_name = "fixed_line" -> "example_fixed_line_number"
      [] type_name = "toll_free" -> "example_toll_free_number"
      [] type_name = "premium_rate" -> "example_premium_rate_number"

ExampleInternationalKey(type_name) ==
    CASE type_name = "mobile" -> "example_mobile_international"
      [] type_name = "fixed_line" -> "example_fixed_line_international"
      [] type_name = "toll_free" -> "example_toll_free_international"
      [] type_name = "premium_rate" -> "example_premium_rate_international"

RECURSIVE Examples(_, _)
\* the loop over the four example types; available is the set of type names
\* for which the library has an example number in the region
Examples(i, available) ==
    IF i > Len(ExampleTypeNames) THEN << >>
    ELSE LET rest == Examples(i + 1, available)
             type_name == ExampleTypeNames[i]
         IN  IF type_name \in available
             THEN Update([k \in {ExampleNumberKey(type_name),
                                 ExampleInternationalKey(type_name)} |-> Ext],
                         rest)
             ELSE rest

CategoryOrder ==
    <<"NUMBER_FORMATS", "VALIDATION", "STRUCTURE", "GEOGRAPHIC_INFO",
      "TIMEZONE_INFO", "SERVICE_INFO", "TECHNICAL_DATA", "EXAMPLES", "ANALYSIS">>

RECURSIVE TotalPoints(_, _)
\* sum(len(section) for section in result.values() if isinstance(section,
\* dict)); every section the program assembles is a dict
TotalPoints(res, i) ==
    IF i > Len(CategoryOrder) THEN 0
    ELSE PyLen(res[CategoryOrder[i]]) + TotalPoints(res, i + 1)

Analysis(validation, geographic, service_info, num_type) ==
    [lookup_timestamp_utc |-> Ext,
     lookup_timestamp_local |-> Ext,
     data_sources |-> <<"libphonenumber", "pycountry", "pytz">>,
     analysis_version |-> "2.0",
     total_data_points |-> 0,
     confidence_score |->
         calculate_confidence_score(validation, geographic, service_info),
     risk_assessment |-> assess_number_risk(num_type, geographic, validation)]

Sections(number_str, pn_, facts) ==
    LET formats ==
            [input_number |-> number_str, e164_format |-> Ext,
             international_format |-> Ext, national_format |-> Ext,
             rfc3966_format |-> Ext, raw_input_cleaned |-> Cleaned(number_str)]
        validation ==
            [is_valid_number |-> facts.is_valid_number,
             is_possible_number |-> Ext,
             is_valid_for_region |-> Ext,
             validation_result |-> IF facts.is_valid_number THEN "VALID"
                                   ELSE "INVALID",
             possible_length_local_only |-> Ext]
        structure ==
            [country_code |-> pn_.country_code,
             national_number |-> pn_.national_number,
             national_number_length |-> Len(Str(pn_.national_number)),
             total_digits |-> Ext, has_extension |-> Ext, extension |-> Ext,
             has_italian_leading_zero |-> Ext, number_of_leading_zeros |-> Ext]
        geographic0 ==
            [region_code |-> Ext, country_name |-> Ext,
             country_official_name |-> Ext, country_alpha_3 |-> Ext,
             country_numeric_code |-> Ext, associated_regions |-> Ext,
             region_count_for_country_code |-> Ext,
             is_multi_region_country_code |-> Ext]
        geographic ==
            Update(Update(geographic0, get_enhanced_location_data(facts.region_desc)),
                   get_area_code_info(pn_))
        service_info ==
            [carrier_name |-> facts.carrier_name,
             carrier_available |-> Truthy(facts.carrier_name),
             number_type |-> facts.num_type,
             number_type_code |-> facts.num_type,
             is_mobile |-> facts.num_type = "MOBILE",
             is_fixed_line |-> facts.num_type = "FIXED_LINE",
             is_fixed_or_mobile |-> facts.num_type = "FIXED_LINE_OR_MOBILE",
             is_voip |-> facts.num_type = "VOIP",
             is_toll_free |-> facts.num_type = "TOLL_FREE",
             is_premium_rate |-> facts.num_type = "PREMIUM_RATE",
             is_special_service |->
                 facts.num_type \in {"PREMIUM_RATE", "SHARED_COST", "UAN"},
             likely_billable |-> facts.num_type \notin {"TOLL_FREE", "VOICEMAIL"}]
        technical ==
            [national_prefix |-> Ext, international_prefix |-> Ext,
             national_prefix_for_parsing |-> Ext,
             preferred_international_prefix |-> Ext,
             national_prefix_optional_when_formatting |-> Ext]
    IN  [NUMBER_FORMATS |-> formats,
         VALIDATION |-> validation,
         STRUCTURE |-> structure,
         GEOGRAPHIC_INFO |-> geographic,
         TIMEZONE_INFO |-> get_timezone_details(TzList(facts.tz_count)),
         SERVICE_INFO |-> service_info,
         TECHNICAL_DATA |-> technical,
         EXAMPLES |-> Examples(1, facts.example_types),
         ANALYSIS |-> Analysis(validation, geographic, service_info, facts.num_type)]

\* lines 284-286 with the total stored under a key the analysis does not
\* have yet
StoreTotal_fresh_key(res) ==
    [res EXCEPT !["ANALYSIS"] =
        SetItem(res["ANALYSIS"], "total_points", TotalPoints(res, 1))]

\* lines 284-286: count the assembled report, then overwrite the placeholder
StoreTotal(res) ==
    [res EXCEPT !["ANALYSIS"] =
        SetItem(res["ANALYSIS"], "total_data_points", TotalPoints(res, 1))]

\* ------------------------------------------------------------------------
\* main: one run of the program (specification Spec)
\* ------------------------------------------------------------------------
InputChars == {" ", "4"}

RECURSIVE StringsUpTo(_)
StringsUpTo(n) ==
    IF n = 0 THEN {<<>>}
    ELSE LET shorter == StringsUpTo(n - 1)
         IN  shorter \cup {Append(t, c) : t \in shorter, c \in InputChars}

InputStrings == StringsUpTo(MaxInputLen)

\* what the library's parser can hand back for a string it accepts
PipelineNumbers ==
    {n \in ParsedNumbers : Len(Str(n.national_number)) \in {2, MaxNationalLen - 1}}

\* what the library's lookups can answer for a parsed number
Facts ==
    [is_valid_number : BOOLEAN,
     num_type : {"MOBILE", "VOIP", "PREMIUM_RATE"},
     region_desc : {<<>>, <<"S">>, <<"S", ",", " ", "C">>},
     carrier_name : CarrierStrings,
     tz_count : 0..MaxTz,
     example_types : {{}, {"mobile", "toll_free"},
                      {"mobile", "fixed_line", "toll_free", "premium_rate"}}]

Range(q) == {q[i] : i \in 1..Len(q)}

ReportLines == <<"report_header">> \o CategoryOrder \o <<"report_footer">>

SummaryLines(res) ==
    <<"summary_header", "summary_total", "summary_valid", "summary_location",
      "summary_confidence", "summary_risk_level">>
    \o (IF res["ANALYSIS"]["risk_assessment"].risk_factors # <<>>
        THEN <<"summary_risk_factors">> ELSE <<>>)
    \o <<"summary_footer">>

Init ==
    /\ pc = "start"
    /\ phone_number = None
    /\ parse_calls = <<>>
    /\ pn = None
    /\ result = None
    /\ exc = <<>>
    /\ stdout = <<>>
    /\ stderr = <<>>
    /\ exit_code = <<>>
    /\ call = None
    /\ ret = None

UnchangedUnit == UNCHANGED <<call, ret>>

\* lines 396-399: the banner, the prompt and the line read
MainPrompt ==
    /\ pc = "start"
    /\ \E text \in InputStrings : phone_number' = text
    /\ stdout' = stdout \o <<"banner", "prompt">>
    /\ pc' = "read"
    /\ UNCHANGED <<parse_calls, pn, result, exc, stderr, exit_code>>
    /\ UnchangedUnit

\* lines 401-403
MainRejectEmpty ==
    /\ pc = "read"
    /\ Strip(phone_number) = <<>>
    /\ stdout' = Append(stdout, "error_no_number")
    /\ exit_code' = <<1>>
    /\ pc' = "exited"
    /\ UNCHANGED <<phone_number, parse_calls, pn, result, exc, stderr>>
    /\ UnchangedUnit

\* lines 405-413: the progress lines, then the call of enrich_phone
MainBeginAnalysis ==
    /\ pc = "read"
    /\ Strip(phone_number) # <<>>
    /\ stdout' = Append(stdout, "progress")
    /\ pc' = "parse"
    /\ UNCHANGED <<phone_number, parse_calls, pn, result, exc, stderr, exit_code>>
    /\ UnchangedUnit

\* lines 114-117: phonenumbers.parse(number_str, None)
ParseNoRegion ==
    /\ pc = "parse"
    /\ \/ \E parsed \in PipelineNumbers :
             /\ pn' = parsed
             /\ parse_calls' = Append(parse_calls,
                                      [region |-> "None", ok |-> TRUE, value |-> parsed])
             /\ pc' = "extract"
       \/ /\ parse_calls' = Append(parse_calls,
                                   [region |-> "None", ok |-> FALSE, value |-> None])
          /\ pc' = "parse_default"
          /\ UNCHANGED pn
    /\ UNCHANGED <<phone_number, result, exc, stdout, stderr, exit_code>>
    /\ UnchangedUnit

\* lines 118-122: phonenumbers.parse(number_str, "US"), sys.exit(message) when
\* it fails too
ParseDefaultRegion ==
    /\ pc = "parse_default"
    /\ \/ \E parsed \in PipelineNumbers :
             /\ pn' = parsed
             /\ parse_calls' = Append(parse_calls,
                                      [region |-> "US", ok |-> TRUE, value |-> parsed])
             /\ pc' = "extract"
             /\ UNCHANGED exc
       \/ /\ parse_calls' = Append(parse_calls,
                                   [region |-> "US", ok |-> FALSE, value |-> None])
          /\ exc' = <<[type |-> "SystemExit", arg |-> "invalid_input"]>>
          /\ pc' = "raised"
          /\ UNCHANGED pn
    /\ UNCHANGED <<phone_number, result, stdout, stderr, exit_code>>
    /\ UnchangedUnit

\* lines 124-288: the extractors, the scorers and the assembly; a lookup (for
\* one, pytz.timezone on a zone name it does not know) may raise instead
EnrichPhone ==
    /\ pc = "extract"
    /\ \/ \E facts \in Facts :
             /\ result' = StoreTotal(Sections(Strip(phone_number), pn, facts))
             /\ pc' = "format"
             /\ UNCHANGED exc
       \/ /\ exc' = <<[type |-> "Exception", arg |-> "lookup_failed"]>>
          /\ pc' = "raised"
          /\ UNCHANGED result
    /\ UNCHANGED <<phone_number, parse_calls, pn, stdout, stderr, exit_code>>
    /\ UnchangedUnit

\* lines 334-363: format_output prints the header, one block per section and
\* the footer; a write that raises leaves the lines before it on the console.
\* The report is not used again once the try block is left by an exception.
FormatOutput ==
    /\ pc = "format"
    /\ \/ /\ stdout' = stdout \o ReportLines
          /\ pc' = "summary"
          /\ UNCHANGED <<result, exc>>
       \/ \E k \in 0..(Len(ReportLines) - 1) :
             /\ stdout' = stdout \o SubSeq(ReportLines, 1, k)
             /\ exc' = <<[type |-> "Exception", arg |-> "print_failed"]>>
             /\ result' = None
             /\ pc' = "raised"
    /\ UNCHANGED <<phone_number, parse_calls, pn, stderr, exit_code>>
    /\ UnchangedUnit

\* lines 418-441: the quick summary, then the normal end of the program
QuickSummary ==
    /\ pc = "summary"
    /\ LET lines == SummaryLines(result)
       IN  \/ /\ stdout' = stdout \o lines
              /\ exit_code' = <<0>>
              /\ pc' = "exited"
              /\ UNCHANGED <<result, exc>>
           \/ \E k \in 0..(Len(lines) - 1) :
                 /\ stdout' = stdout \o SubSeq(lines, 1, k)
                 /\ exc' = <<[type |-> "Exception", arg |-> "print_failed"]>>
                 /\ result' = None
                 /\ pc' = "raised"
                 /\ UNCHANGED exit_code
    /\ UNCHANGED <<phone_number, parse_calls, pn, stderr>>
    /\ UnchangedUnit

IsExceptionInstance_bare_except(type) == TRUE

\* isinstance(e, Exception): SystemExit derives from BaseException only
IsExceptionInstance(type) == type # "SystemExit"

\* lines 443-445: except Exception as e
MainExcept ==
    /\ pc = "raised"
    /\ IsExceptionInstance(exc[1].type)
    /\ stdout' = Append(stdout, "error_during_analysis")
    /\ exit_code' = <<1>>
    /\ exc' = <<>>
    /\ pc' = "exited"
    /\ UNCHANGED <<phone_number, parse_calls, pn, result, stderr>>
    /\ UnchangedUnit

\* line 122 seen from the interpreter: a SystemExit that no handler takes ends
\* the process, its string argument written to stderr, with exit status 1
ExitUncaught ==
    /\ pc = "raised"
    /\ ~IsExceptionInstance(exc[1].type)
    /\ stderr' = Append(stderr, exc[1].arg)
    /\ exit_code' = <<1>>
    /\ exc' = <<>>
    /\ pc' = "exited"
    /\ UNCHANGED <<phone_number, parse_calls, pn, result, stdout>>
    /\ UnchangedUnit

Next ==
    \/ MainPrompt
    \/ MainRejectEmpty
    \/ MainBeginAnalysis
    \/ ParseNoRegion
    \/ ParseDefaultRegion
    \/ EnrichPhone
    \/ FormatOutput
    \/ QuickSummary
    \/ MainExcept
    \/ ExitUncaught

Spec == Init /\ [][Next]_vars

ReportOrSummaryLines ==
    Range(ReportLines)
        \cup {"summary_header", "summary_total", "summary_valid",
              "summary_location", "summary_confidence", "summary_risk_level",
              "summary_risk_factors", "summary_footer"}

NothingReported == Range(stdout) \cap ReportOrSummaryLines = {}

\* C7: a run that the top-level handler ended (message printed, exit code 1)
\* after a failure in enrich_phone, format_output or the quick summary has
\* printed no report section and no quick-summary line.
C7_NoPartialReport ==
    (/\ pc = "exited"
     /\ exit_code = <<1>>
     /\ "error_during_analysis" \in Range(stdout))
        => NothingReported

BothParsesFailed ==
    /\ Len(parse_calls) = 2
    /\ ~parse_calls[1].ok
    /\ ~parse_calls[2].ok

\* C8: the parse without a region comes first; the parse with region US is
\* made only after that one failed, and once; when both fail the run ends
\* with the message on stderr and exit code 1, main's handler does not take
\* the exit, nothing is extracted and nothing is reported; when one succeeds
\* the pipeline goes on with the number it returned.
C8_ParseSequence ==
    /\ Len(parse_calls) <= 2
    /\ Len(parse_calls) >= 1 => parse_calls[1].region = "None"
    /\ Len(parse_calls) = 2 =>
          /\ parse_calls[2].region = "US"
          /\ ~parse_calls[1].ok
    /\ BothParsesFailed =>
          /\ pc \in {"raised", "exited"}
          /\ result = None
          /\ NothingReported
          /\ "error_during_analysis" \notin Range(stdout)
          /\ pc = "exited" => (exit_code = <<1>> /\ stderr = <<"invalid_input">>)
    /\ (parse_calls # <<>> /\ parse_calls[Len(parse_calls)].ok) =>
          /\ pn = parse_calls[Len(parse_calls)].value
          /\ pc \in {"extract", "format", "summary", "raised", "exited"}
    /\ pc \in {"extract", "format", "summary"} =>
          (parse_calls # <<>> /\ parse_calls[Len(parse_calls)].ok)

C8_Witness ==
    /\ BothParsesFailed
    /\ pc = "exited"
    /\ exit_code = <<1>>
    /\ stderr = <<"invalid_input">>

IsBlank(s) == \A i \in 1..Len(s) : s[i] = " "

\* C9: when the line entered is empty after stripping whitespace, the run
\* ends with the error message and exit code 1, with no parse attempt, no
\* report section and no quick summary.
C9_EmptyInput ==
    (pc # "start" /\ IsBlank(phone_number)) =>
        /\ pc \in {"read", "exited"}
        /\ parse_calls = <<>>
        /\ NothingReported
        /\ pc = "exited" =>
              /\ exit_code = <<1>>
              /\ stdout = <<"banner", "prompt", "error_no_number">>

C9_Witness ==
    /\ pc = "exited"
    /\ phone_number = <<" ", " ">>
    /\ exit_code = <<1>>
    /\ stdout = <<"banner", "prompt", "error_no_number">>

RECURSIVE EntryCount(_, _)
\* the entries of the categories cs of the report res, counted one by one
EntryCount(res, cs) ==
    IF cs = {} THEN 0
    ELSE LET c == CHOOSE x \in cs : TRUE
         IN  Cardinality(DOMAIN res[c]) + EntryCount(res, cs \ {c})

\* C10: in a report returned by enrich_phone, total_data_points is the sum
\* of the entry counts of the categories of that report (so it is not the
\* placeholder 0), and storing it added no entry: the analysis category has
\* the seven entries it was built with.
C10_TotalDataPoints ==
    pc \in {"format", "summary"} =>
        /\ result["ANALYSIS"]["total_data_points"]
              = EntryCount(result, DOMAIN result)
        /\ result["ANALYSIS"]["total_data_points"] # 0
        /\ PyLen(result["ANALYSIS"]) = 7

C10_Witness ==
    /\ pc = "format"
    /\ PyLen(result["TIMEZONE_INFO"]) = 13
    /\ PyLen(result["EXAMPLES"]) = 4
    /\ PyLen(result["GEOGRAPHIC_INFO"]) = 18
    /\ result["ANALYSIS"]["total_data_points"] = 78

\* C11: for every number type, primary location and validation flag,
\* is_safe_to_call equals is_valid_number: the level HIGH is returned only
\* for a number that fails validation, so the level never changes the
\* verdict of a valid number.
C11_SafeEqualsValid ==
    Returned("assess_number_risk") =>
        /\ ret.is_safe_to_call = call.validation.is_valid_number
        /\ ret.risk_level = "HIGH" => ~call.validation.is_valid_number

C11_Witness ==
    /\ Returned("assess_number_risk")
    /\ call.validation.is_valid_number
    /\ call.num_type = "PREMIUM_RATE"
    /\ Truthy(call.geographic.primary_location)
    /\ ret.risk_level = "MEDIUM"
    /\ ret.is_safe_to_call

====
